---- MODULE Spec2Model ----
(***************************************************************************)
(* VibeCheck agent (cloud/agent-ts): the single-flight dispatch engine of  *)
(* VibeAgent (agent.ts), the query executor ClaudeSession (claude.ts), the *)
(* SecurityManager (security.ts) and the TaskScheduler (scheduler.ts).     *)
(*                                                                         *)
(* Node runs every handler to its next await without interleaving, so one  *)
(* action is one such run-to-await step.  The Claude Agent SDK is the      *)
(* environment: it delivers stream events one at a time, may end a stream  *)
(* normally or by throwing at any point, and throws AbortError only after  *)
(* the query's abort controller was tripped or its interrupt() resolved.   *)
(***************************************************************************)
EXTENDS Integers, Sequences, FiniteSets, TLC

NONE == "none"
\* the null value of a query handle: a handle is <<run, attempt>>
NoHandle == <<<<"none", 0>>, 0>>

\* ---- bounds of the model ------------------------------------------------
MaxQueries == 2
MaxFirings == 2
MaxInterrupts == 1
MaxChunks == 2
MaxCalls == 2
MaxTrustMsgs == 1
MaxSessionInfos == 1
MaxAdds == 2

\* the id a resumed session was stored under, and the ids the SDK reports
StoredSessionIds == {"old"}
SessionIds == {"s1"}
ServerSessionIds == {"srv"}
\* what a message of the stream carries as session_id: nothing, the id the
\* session was resumed by, or a new id
SdkSessionIds == {NONE} \cup StoredSessionIds \cup SessionIds
ToolUseIds == {"t1"}
ToolName(t) == IF t = "t1" THEN "Read" ELSE "Bash"

VARIABLES
  processing,             \* VibeAgent.processing
  pendingScheduledTasks,  \* VibeAgent.pendingScheduledTasks (firing ids)
  frames,                 \* live handleQuery / runScheduledTask activations
  currentQuery,           \* ClaudeSession.currentQuery (handle or NoHandle)
  abortController,        \* ClaudeSession.abortController (handle or NoHandle)
  sessionId,              \* ClaudeSession.sessionId
  sessionStarted,         \* ClaudeSession.sessionStarted
  sessionFile,            \* session id persisted by session.ts
  interrupts,             \* handleInterrupt activations awaiting query.interrupt()
  out,                    \* frames handed to send() by the last step
  wire,                   \* frames the last step wrote to the socket
  lastDone,               \* summary of the activation the last step completed
  trustedPaths,           \* SecurityManager.trustedPaths (resolved path strings)
  pendingApproval,        \* SecurityManager.pendingApproval: {} (null) or one record
  parked,                 \* canUseTool calls whose promise is not resolved yet
  resolved,               \* canUseTool calls the last step resolved
  sdkReported,            \* the session id the SDK reported last
  mainPc,                 \* where main's supervisor loop stands
  ws,                     \* the WebSocket of the last connect call
  connectPromise,         \* the promise connect returned, and the error it rejected with
  pingInterval,           \* whether the ping timer is armed
  signalled,              \* whether the process received SIGINT or SIGTERM
  closing,                \* an earlier socket emitted error and has not emitted close yet
  uiAsked,                \* approval_required frames the UI received and has not answered
  tasks,                  \* TaskScheduler.tasks
  cronJobs,               \* TaskScheduler.cronJobs: the ids that have a job in the map
  runningJobs,            \* node-cron: per id, the jobs scheduled and not stopped
  scheduleFile,           \* the task list persisted in schedules.json
  firedTask,              \* per firing of a cron job, in order, the id of its task
  sessionDir,             \* SESSION_DIR: file name -> {} (no file) or {its text}
  loaded,                 \* what the loadSessionId call of the last step returned
  sdkQuery,               \* the options of the SDK query the last step started
  nAdds,
  nQueries, nFired, nInterrupts, nCalls, nTrustMsgs, nSessionInfos

vars == <<processing, pendingScheduledTasks, frames, currentQuery, abortController,
          sessionId, sessionStarted, sessionFile, interrupts, out, wire, lastDone,
          trustedPaths, pendingApproval, parked, resolved,
          sdkReported, mainPc, ws, connectPromise, pingInterval, signalled, closing, uiAsked,
          tasks, cronJobs, runningJobs, scheduleFile, firedTask, sessionDir, loaded, sdkQuery, nAdds,
          nQueries, nFired, nInterrupts, nCalls, nTrustMsgs, nSessionInfos>>

\* The agent's state as one value, so that handlers compose like the code.
S == [processing |-> processing, pendingScheduledTasks |-> pendingScheduledTasks,
      frames |-> frames, currentQuery |-> currentQuery,
      abortController |-> abortController, sessionId |-> sessionId,
      sessionStarted |-> sessionStarted, sessionFile |-> sessionFile,
      interrupts |-> interrupts, out |-> out, wire |-> wire, lastDone |-> lastDone,
      trustedPaths |-> trustedPaths, pendingApproval |-> pendingApproval,
      parked |-> parked, resolved |-> resolved,
      nQueries |-> nQueries, nFired |-> nFired, nInterrupts |-> nInterrupts,
      nCalls |-> nCalls, nTrustMsgs |-> nTrustMsgs,
      sdkReported |-> sdkReported, nSessionInfos |-> nSessionInfos,
      mainPc |-> mainPc, ws |-> ws, connectPromise |-> connectPromise,
      pingInterval |-> pingInterval, signalled |-> signalled, closing |-> closing,
      uiAsked |-> uiAsked,
      tasks |-> tasks, cronJobs |-> cronJobs, runningJobs |-> runningJobs,
      scheduleFile |-> scheduleFile, firedTask |-> firedTask,
      sessionDir |-> sessionDir, loaded |-> loaded, sdkQuery |-> sdkQuery,
      nAdds |-> nAdds]

Commit(s) ==
  /\ processing' = s.processing
  /\ pendingScheduledTasks' = s.pendingScheduledTasks
  /\ frames' = s.frames
  /\ currentQuery' = s.currentQuery
  /\ abortController' = s.abortController
  /\ sessionId' = s.sessionId
  /\ sessionStarted' = s.sessionStarted
  /\ sessionFile' = s.sessionFile
  /\ interrupts' = s.interrupts
  /\ out' = s.out
  /\ wire' = s.wire
  /\ lastDone' = s.lastDone
  /\ nQueries' = s.nQueries
  /\ nFired' = s.nFired
  /\ nInterrupts' = s.nInterrupts
  /\ trustedPaths' = s.trustedPaths
  /\ pendingApproval' = s.pendingApproval
  /\ parked' = s.parked
  /\ resolved' = s.resolved
  /\ nCalls' = s.nCalls
  /\ nTrustMsgs' = s.nTrustMsgs
  /\ sdkReported' = s.sdkReported
  /\ mainPc' = s.mainPc
  /\ ws' = s.ws
  /\ connectPromise' = s.connectPromise
  /\ pingInterval' = s.pingInterval
  /\ signalled' = s.signalled
  /\ closing' = s.closing
  /\ uiAsked' = s.uiAsked
  /\ tasks' = s.tasks
  /\ cronJobs' = s.cronJobs
  /\ runningJobs' = s.runningJobs
  /\ scheduleFile' = s.scheduleFile
  /\ firedTask' = s.firedTask
  /\ sessionDir' = s.sessionDir
  /\ loaded' = s.loaded
  /\ sdkQuery' = s.sdkQuery
  /\ nAdds' = s.nAdds
  /\ nSessionInfos' = s.nSessionInfos

NoRun == [kind |-> "none", run |-> <<"none", 0>>, outcome |-> "none", resp |-> 0,
          respKind |-> "none", intrMsg |-> FALSE, intrResp |-> 0, aborted |-> FALSE,
          chunkOK |-> TRUE, sentChunks |-> 0, openTools |-> 0, endOK |-> TRUE,
          attempt |-> 0, newSessionId |-> NONE]

\* A step starts with nothing sent and nothing completed yet.
Begin == [S EXCEPT !.out = <<>>, !.wire = <<>>, !.lastDone = NoRun, !.resolved = {},
                   !.sdkQuery = {}, !.loaded = NONE]

Msg(t, a, b) == [type |-> t, a |-> a, b |-> b]
Response(kind) == Msg("response", kind, 0)

\* Faulty variant: the frame is written whatever the state of the socket
sendAlways(s, msg) == [s EXCEPT !.out = Append(@, msg), !.wire = Append(@, msg)]

\* VibeAgent.send: the frame is written to the socket if there is one and it
\* is OPEN, and dropped otherwise
send(s, msg) ==
  [s EXCEPT !.out = Append(@, msg),
            !.wire = IF s.ws = "open" THEN Append(@, msg) ELSE @]

IsResponse(m) == m.type = "response"
HandlerResponses(o) ==
  Cardinality({i \in DOMAIN o : IsResponse(o[i]) /\ o[i].a \in {"result", "error", "task"}})

NewFrame(run, kind, firing) ==
  [run |-> run, kind |-> kind, firing |-> firing, pc |-> "exec", attempt |-> 1,
   chunkIndex |-> 0, toolUseIdMap |-> {}, newSessionId |-> NONE, aborted |-> FALSE,
   sdkOpen |-> {},
   sentChunks |-> 0, chunkOK |-> TRUE, openTools |-> 0, endOK |-> TRUE,
   intrMsg |-> FALSE, intrResp |-> 0]

PutFrame(s, f) == [s EXCEPT !.frames = {g \in @ : g.run # f.run} \cup {f}]
DropFrame(s, f) == [s EXCEPT !.frames = {g \in @ : g.run # f.run}]

\* ---- session store (session.ts) -------------------------------------------

\* the working directory of this agent
AgentWorkDir == "w"

\* working directories; "w2" is a directory whose md5 prefix is that of "w"
StoreWorkDirs == {"w", "w2", "o", "p"}

\* the session ids the agent passes to saveSessionId: non-empty strings
StoreSessionIds == StoredSessionIds \cup SessionIds \cup ServerSessionIds

\* createHash("md5").update(workDir).digest("hex").slice(0, 12)
md5Prefix(workDir) ==
  CASE workDir \in {"w", "w2"} -> "5d41402abc4b"
    [] workDir = "o" -> "7d793037a076"
    [] OTHER -> "83878c91171f"

getSessionFilePath(workDir) == <<"session_", md5Prefix(workDir), ".json">>

SessionFilePaths == {getSessionFilePath(w) : w \in StoreWorkDirs}

\* JSON.stringify of an object: its members in order, as key and value
JSONstringify(data) ==
  <<<<"work_dir", data.work_dir>>, <<"session_id", data.session_id>>,
    <<"updated_at", data.updated_at>>>>

\* JSON.parse of such a text: the object with those members
JSONparse(raw) ==
  [key \in {raw[i][1] : i \in DOMAIN raw} |->
     raw[CHOOSE i \in DOMAIN raw : raw[i][1] = key][2]]

EmptyDir == [filePath \in SessionFilePaths |-> {}]

\* Faulty variant: an existing session file is not overwritten
saveSessionIdKeepExisting(dir, workDir, id) ==
  IF dir[getSessionFilePath(workDir)] # {} THEN dir
  ELSE [dir EXCEPT ![getSessionFilePath(workDir)] =
          {JSONstringify([work_dir |-> workDir, session_id |-> id,
                          updated_at |-> "now"])}]

\* saveSessionId: writeFileSync replaces the file of the directory's hash
saveSessionId(dir, workDir, id) ==
  [dir EXCEPT ![getSessionFilePath(workDir)] =
     {JSONstringify([work_dir |-> workDir, session_id |-> id,
                     updated_at |-> "now"])}]

\* loadSessionId: the id of the file, if it is there and names this directory
loadSessionId(dir, workDir) ==
  LET filePath == getSessionFilePath(workDir) IN
  IF dir[filePath] = {} THEN NONE
  ELSE LET data == JSONparse(CHOOSE raw \in dir[filePath] : TRUE) IN
       IF data.session_id # "" /\ data.work_dir = workDir
       THEN data.session_id
       ELSE NONE

\* clearSessionId: unlinkSync of the file of the directory's hash
clearSessionId(dir, workDir) == [dir EXCEPT ![getSessionFilePath(workDir)] = {}]

\* the agent persists an id for its own working directory
persistSessionId(s, id) ==
  [s EXCEPT !.sessionDir = saveSessionId(@, AgentWorkDir, id), !.sessionFile = id]

\* ---- ClaudeSession ------------------------------------------------------

\* Faulty variant: continue is preferred to an explicit resume
sessionOptionsContinueFirst(s) ==
  IF s.sessionStarted THEN [resume |-> NONE, continue |-> TRUE]
  ELSE IF s.sessionId # NONE THEN [resume |-> s.sessionId, continue |-> FALSE]
  ELSE [resume |-> NONE, continue |-> FALSE]

\* the session part of the options execute hands to the SDK
sessionOptions(s) ==
  IF s.sessionId # NONE THEN [resume |-> s.sessionId, continue |-> FALSE]
  ELSE IF s.sessionStarted THEN [resume |-> NONE, continue |-> TRUE]
  ELSE [resume |-> NONE, continue |-> FALSE]

\* execute, from its entry to the first await of the event loop: a new abort
\* controller, the options, fresh locals, and the SDK query handle.
execute(s, f) ==
  LET h == <<f.run, f.attempt>> IN
  PutFrame([s EXCEPT !.abortController = h, !.currentQuery = h,
                     !.sdkQuery = {sessionOptions(s)}],
           [f EXCEPT !.pc = "exec", !.chunkIndex = 0, !.toolUseIdMap = {},
                     !.newSessionId = NONE, !.aborted = FALSE, !.sdkOpen = {}])

\* Faulty variant: the finally block marks the session as started
executeFinallyMarkStarted(s) ==
  [s EXCEPT !.currentQuery = NoHandle, !.abortController = NoHandle,
            !.sessionStarted = TRUE]

\* the finally block of execute
executeFinally(s) == [s EXCEPT !.currentQuery = NoHandle, !.abortController = NoHandle]

\* claude.onSessionId as wired by the VibeAgent constructor
onSessionId(s, id) ==
  send(persistSessionId(s, id), Msg("session_update", id, 0))

\* Faulty variant: the captured id is not compared with the stored one
executeReturnAlwaysNotify(s, f) ==
  LET s1 == [executeFinally(s) EXCEPT !.sessionStarted = TRUE] IN
  IF f.newSessionId # NONE
  THEN onSessionId([s1 EXCEPT !.sessionId = f.newSessionId], f.newSessionId)
  ELSE s1

\* execute after the event loop completed: finally, then the session update
executeReturn(s, f) ==
  LET s1 == [executeFinally(s) EXCEPT !.sessionStarted = TRUE] IN
  IF f.newSessionId # NONE /\ f.newSessionId # s1.sessionId
  THEN onSessionId([s1 EXCEPT !.sessionId = f.newSessionId], f.newSessionId)
  ELSE s1

\* the catch block of execute decides: rethrow or retry with a new session
IsStaleSession(s, err) == s.sessionId # NONE /\ err = "stale"

\* the stale-session retry: the inner execute runs to its first await inside
\* the catch block, and the outer finally runs after it
executeRetry(s, f) ==
  executeFinally(execute([s EXCEPT !.sessionId = NONE, !.sessionStarted = FALSE],
                         [f EXCEPT !.attempt = @ + 1]))

\* the first session id a message of the stream carries is kept
captureSessionId(f, sid) ==
  IF sid # NONE /\ f.newSessionId = NONE THEN [f EXCEPT !.newSessionId = sid] ELSE f

\* a message of the stream arrived carrying session id sid, or none
Reported(s, sid) == IF sid # NONE THEN [s EXCEPT !.sdkReported = sid] ELSE s

\* stream_event with a text delta
onStreamingChunk(s, f) ==
  PutFrame(send(s, Msg("streaming_chunk", f.chunkIndex, 0)),
           [f EXCEPT !.chunkIndex = @ + 1,
                     !.chunkOK = @ /\ f.chunkIndex = f.sentChunks,
                     !.sentChunks = @ + 1])

\* assistant message with a tool_use block
onToolUse(s, f, t) ==
  PutFrame(send(s, Msg("tool_status", "start", ToolName(t))),
           [f EXCEPT !.toolUseIdMap = @ \cup {t}, !.sdkOpen = @ \cup {t},
                     !.openTools = @ + 1])

\* user message with a tool_result block
onToolResult(s, f, t) ==
  PutFrame(send(s, Msg("tool_status", "end",
                       IF t \in f.toolUseIdMap THEN ToolName(t) ELSE "tool")),
           [f EXCEPT !.sdkOpen = @ \ {t},
                     !.openTools = IF @ > 0 THEN @ - 1 ELSE 0,
                     !.endOK = @ /\ t \in f.toolUseIdMap /\ f.openTools > 0])

\* ---- VibeAgent: the execution slot ---------------------------------------

Summary(s, f, outcome) ==
  [kind |-> f.kind, run |-> f.run, outcome |-> outcome,
   resp |-> HandlerResponses(s.out),
   respKind |-> IF \E i \in DOMAIN s.out : IsResponse(s.out[i])
                THEN (CHOOSE m \in {s.out[i] : i \in DOMAIN s.out} : IsResponse(m)).a
                ELSE "none",
   intrMsg |-> f.intrMsg, intrResp |-> f.intrResp, aborted |-> f.aborted,
   chunkOK |-> f.chunkOK, sentChunks |-> f.sentChunks, openTools |-> f.openTools,
   endOK |-> f.endOK, attempt |-> f.attempt, newSessionId |-> f.newSessionId]

\* runScheduledTask up to the await of execute
runScheduledTask(s, task) ==
  IF s.processing
  THEN [s EXCEPT !.pendingScheduledTasks = Append(@, task)]
  ELSE execute([s EXCEPT !.processing = TRUE],
               NewFrame(<<"task", task>>, "task", task))

\* Faulty variant: the finally block forgets to drain
drainScheduledQueueNever(s) == s

\* Faulty variant: the drain takes the newest task (pop, not shift)
drainScheduledQueueLast(s) ==
  IF s.pendingScheduledTasks = <<>> THEN s
  ELSE runScheduledTask([s EXCEPT !.pendingScheduledTasks = SubSeq(@, 1, Len(@) - 1)],
                        s.pendingScheduledTasks[Len(s.pendingScheduledTasks)])

drainScheduledQueue(s) ==
  IF s.pendingScheduledTasks = <<>> THEN s
  ELSE runScheduledTask([s EXCEPT !.pendingScheduledTasks = Tail(@)],
                        Head(s.pendingScheduledTasks))

\* Faulty variant: the finally block drains without clearing processing
releaseSlotKeepBusy(s, f, outcome) ==
  drainScheduledQueue([DropFrame(s, f) EXCEPT !.lastDone = Summary(s, f, outcome)])

\* the finally block of handleQuery and of runScheduledTask
releaseSlot(s, f, outcome) ==
  drainScheduledQueue([DropFrame(s, f) EXCEPT !.processing = FALSE,
                                              !.lastDone = Summary(s, f, outcome)])

\* Faulty variant: a busy firing is answered like a busy query and not queued
onTaskFireBusyReply(s, task) ==
  IF s.processing
  THEN send(s, Response("busy"))
  ELSE runScheduledTask(s, task)

\* Faulty variant: a firing is queued whether or not the slot is held
onTaskFireAlwaysQueue(s, task) ==
  [s EXCEPT !.pendingScheduledTasks = Append(@, task)]

\* scheduler.onTaskFire as wired by the VibeAgent constructor
onTaskFire(s, task) ==
  IF s.processing
  THEN [s EXCEPT !.pendingScheduledTasks = Append(@, task)]
  ELSE runScheduledTask(s, task)

\* Faulty variant: the busy check sits inside the try block, so its return runs the
\* finally block
handleQueryBusyInTry(s) ==
  IF s.processing
  THEN drainScheduledQueue([send(s, Response("busy")) EXCEPT !.processing = FALSE])
  ELSE execute([s EXCEPT !.processing = TRUE],
               NewFrame(<<"query", s.nQueries>>, "query", 0))

\* Faulty variant: handleQuery without the busy check
handleQueryNoGuard(s) ==
  execute([s EXCEPT !.processing = TRUE],
          NewFrame(<<"query", s.nQueries>>, "query", 0))

\* handleQuery up to the await of execute (the image snapshot is synchronous
\* work behind a resolved promise: no other handler runs in between)
handleQuery(s) ==
  IF s.processing
  THEN send(s, Response("busy"))
  ELSE execute([s EXCEPT !.processing = TRUE],
               NewFrame(<<"query", s.nQueries>>, "query", 0))

\* handleQuery after execute returned and the images were collected
handleQueryRespond(s, f) == releaseSlot(send(s, Response("result")), f, "return")

\* Faulty variant: the catch block only logs, as runScheduledTask's does
handleQueryCatchSilent(s, f, err) ==
  releaseSlot(s, f, IF err = "abort" THEN "abort" ELSE "throw")

\* the catch block of handleQuery
handleQueryCatch(s, f, err) ==
  IF err = "abort"
  THEN releaseSlot(s, f, "abort")
  ELSE releaseSlot(send(s, Response("error")), f, "throw")

\* runScheduledTask after execute returned
runScheduledTaskRespond(s, f) == releaseSlot(send(s, Response("task")), f, "return")

\* Faulty variant: an abort leaves the handler without running its finally block
runScheduledTaskCatchAbortStuck(s, f, err) ==
  IF err = "abort" THEN DropFrame(s, f) ELSE releaseSlot(s, f, "throw")

\* the catch block of runScheduledTask: the error is logged
runScheduledTaskCatch(s, f, err) ==
  releaseSlot(s, f, IF err = "abort" THEN "abort" ELSE "throw")

\* ---- session sync --------------------------------------------------------

\* Faulty variant: the server's id replaces the one the agent has
handleSessionInfoOverwrite(s, id, source) ==
  IF id # NONE /\ source = "server"
  THEN persistSessionId([s EXCEPT !.sessionId = id], id)
  ELSE s

handleSessionInfo(s, id, source) ==
  IF id # NONE /\ source = "server" /\ s.sessionId = NONE
  THEN persistSessionId([s EXCEPT !.sessionId = id], id)
  ELSE s

\* ---- connection loop -----------------------------------------------------

\* the messages of the socket's error event: a failed handshake, and a
\* protocol error on an open socket
ErrorMessages == {"connect ECONNREFUSED", "Invalid WebSocket frame"}

\* the messages of the SyntaxError the WebSocket constructor throws for a bad
\* address; the address is the server URL followed by the API key
ConstructorErrors == {"Invalid URL: vibecheck", "Invalid URL: SIGTERM"}

\* error.message.includes("SIGINT") || error.message.includes("SIGTERM")
NamesSignal(message) == message \in {"Invalid URL: SIGTERM"}

startPingLoop(s) == [s EXCEPT !.pingInterval = TRUE]

stopPingLoop(s) == [s EXCEPT !.pingInterval = FALSE]

\* syncSession: announce the working directory and the session id in effect
syncSession(s) == send(s, Msg("session_sync", s.sessionId, 0))

\* connect, to the point where it returns its promise
connect(s) ==
  [s EXCEPT !.ws = "connecting", !.connectPromise = <<"pending", "">>,
            !.mainPc = "connect"]

\* connect when the WebSocket constructor throws inside the promise executor
connectThrows(s, message) ==
  [s EXCEPT !.connectPromise = <<"rejected", message>>, !.mainPc = "connect"]

\* a promise settles once; later resolve and reject calls do nothing
settleConnect(s, how, message) ==
  IF s.connectPromise[1] = "pending"
  THEN [s EXCEPT !.connectPromise = <<how, message>>]
  ELSE s

\* ws.on("open")
onOpen(s) == syncSession(startPingLoop([s EXCEPT !.ws = "open"]))

\* ws.on("close")
onClose(s) == settleConnect(stopPingLoop([s EXCEPT !.ws = "closed"]), "resolved", "")

\* ws.on("close") of a socket that connect has replaced: its promise is
\* settled already, and the fields it touches are the agent's, not the socket's
onCloseEarlier(s) == stopPingLoop([s EXCEPT !.closing = FALSE])

\* ws.on("error"); the socket emits close after it
onError(s, message) ==
  settleConnect(stopPingLoop([s EXCEPT !.ws = "errored"]), "rejected", message)

\* Faulty variant: a failed connect ends the loop
mainResumeGiveUp(s) ==
  IF s.connectPromise[1] = "rejected"
  THEN [s EXCEPT !.mainPc = "exit", !.connectPromise = <<"none", "">>]
  ELSE [s EXCEPT !.mainPc = "sleep", !.connectPromise = <<"none", "">>]

\* main after the awaited connect settled: the catch block, then the sleep
mainResume(s) ==
  IF s.connectPromise[1] = "rejected" /\ NamesSignal(s.connectPromise[2])
  THEN [s EXCEPT !.mainPc = "exit", !.connectPromise = <<"none", "">>]
  ELSE [s EXCEPT !.mainPc = "sleep", !.connectPromise = <<"none", "">>]

\* process.on("SIGINT") / process.on("SIGTERM")
onSignal(s) == [s EXCEPT !.mainPc = "exit", !.signalled = TRUE]

\* ---- TaskScheduler -------------------------------------------------------

\* A cron expression is the sequence of its fields; a field is a number or "*".
EveryMinute == <<"*", "*", "*", "*", "*">>
Mondays9 == <<"0", "9", "*", "*", "1">>
TooShort == <<"*", "*", "*">>
Minute61 == <<"61", "*", "*", "*", "*">>

\* the number a field spells
FieldValue(field) ==
  CASE field = "0" -> 0
    [] field = "1" -> 1
    [] field = "9" -> 9
    [] OTHER -> 61

CronExprs == {EveryMinute, Mondays9, TooShort, Minute61}

\* the range of the i-th of five fields: minute, hour, day, month, weekday
FieldRange(i) ==
  CASE i = 1 -> 0..59
    [] i = 2 -> 0..23
    [] i = 3 -> 1..31
    [] i = 4 -> 1..12
    [] OTHER -> 0..7

\* cron.validate of node-cron, on expressions of numbers and "*"
validate(cronExpr) ==
  /\ Len(cronExpr) = 5
  /\ \A i \in 1..5 : cronExpr[i] = "*" \/ FieldValue(cronExpr[i]) \in FieldRange(i)

\* the tasks the scheduler loaded from schedules.json at construction
StoredTask == [id |-> 0, cron |-> EveryMinute, enabled |-> TRUE]
StoredDisabledTask == [id |-> -1, cron |-> Mondays9, enabled |-> FALSE]
StoredTasks == <<StoredTask, StoredDisabledTask>>

\* the ids of stored tasks, of added tasks, and of tasks that never existed
TaskIds == -1..MaxAdds

saveTasks(s) == [s EXCEPT !.scheduleFile = s.tasks]

\* this.cronJobs.get(id)?.stop()
stopExisting(s, id) ==
  IF id \in s.cronJobs THEN [s EXCEPT !.runningJobs[id] = @ - 1] ELSE s

\* Faulty variant: the job the map holds for the id is not stopped
scheduleJobNoStop(s, task) ==
  [s EXCEPT !.runningJobs[task.id] = @ + 1, !.cronJobs = @ \cup {task.id}]

\* scheduleJob: the old job of the id, if any, is stopped; a new job is
\* scheduled and put in the map
scheduleJob(s, task) ==
  [stopExisting(s, task.id) EXCEPT !.runningJobs[task.id] = @ + 1,
                                   !.cronJobs = @ \cup {task.id}]

stopJob(s, id) == [stopExisting(s, id) EXCEPT !.cronJobs = @ \ {id}]

\* start: a job for every enabled task of the list, in order
RECURSIVE startFrom(_, _)
startFrom(s, i) ==
  IF i > Len(s.tasks) THEN s
  ELSE startFrom(IF s.tasks[i].enabled THEN scheduleJob(s, s.tasks[i]) ELSE s, i + 1)

start(s) == startFrom(s, 1)

\* the scheduler as the VibeAgent constructor leaves it: loaded and started
StartedScheduler ==
  start([tasks |-> StoredTasks, cronJobs |-> {}, runningJobs |-> [id \in TaskIds |-> 0]])

\* Faulty variant: the expression is not validated
addTaskUnchecked(s, cronExpr) ==
  LET task == [id |-> s.nAdds, cron |-> cronExpr, enabled |-> TRUE] IN
  [state |-> scheduleJob(saveTasks([s EXCEPT !.tasks = Append(@, task)]), task),
   result |-> task]

\* addTask: the new state and the value returned (the task, or an error value)
addTask(s, cronExpr) ==
  IF ~validate(cronExpr)
  THEN [state |-> s, result |-> [error |-> cronExpr]]
  ELSE LET task == [id |-> s.nAdds, cron |-> cronExpr, enabled |-> TRUE] IN
       [state |-> scheduleJob(saveTasks([s EXCEPT !.tasks = Append(@, task)]), task),
        result |-> task]

\* removeTask: the new state and the boolean returned
removeTask(s, id) ==
  IF \A i \in DOMAIN s.tasks : s.tasks[i].id # id
  THEN [state |-> s, result |-> FALSE]
  ELSE [state |-> saveTasks([stopJob(s, id) EXCEPT
                               !.tasks = SelectSeq(@, LAMBDA task : task.id # id)]),
        result |-> TRUE]

\* toggleTask: the new state and the boolean returned
toggleTask(s, id, enabled) ==
  IF \A i \in DOMAIN s.tasks : s.tasks[i].id # id
  THEN [state |-> s, result |-> FALSE]
  ELSE LET s1 == [s EXCEPT !.tasks = [i \in DOMAIN @ |->
                                       IF @[i].id = id
                                       THEN [@[i] EXCEPT !.enabled = enabled]
                                       ELSE @[i]]]
       IN [state |-> saveTasks(IF enabled
                               THEN scheduleJob(s1, [id |-> id])
                               ELSE stopJob(s1, id)),
           result |-> TRUE]

\* handleMessage, case schedule_add
handleScheduleAdd(s, cronExpr) ==
  LET r == addTask(s, cronExpr) IN
  send(r.state, Msg("schedule_add_response", ~("error" \in DOMAIN r.result), r.result))

\* ---- interrupt -----------------------------------------------------------

\* the SDK stops the query the handle names, if it is still being iterated
Stop(s, h) ==
  [s EXCEPT !.frames = {IF <<g.run, g.attempt>> = h /\ g.pc = "exec"
                        THEN [g EXCEPT !.aborted = TRUE] ELSE g : g \in @}]

\* handleInterrupt after interrupt() reported true
sendInterrupted(s) ==
  send([s EXCEPT !.frames = {[g EXCEPT !.intrResp = @ + 1] : g \in @}],
       Response("interrupted"))

\* Faulty variant: the abort controller is not tried when the SDK request fails
interruptFallbackNever(s) == s

\* interrupt() past the SDK call: trip the abort controller if there is one
interruptFallback(s) ==
  IF s.abortController # NoHandle
  THEN sendInterrupted(Stop(s, s.abortController))
  ELSE s

\* Faulty variant: an interrupt that finds nothing running is acknowledged
handleInterruptIdleAck(s) ==
  IF ~s.processing THEN send(s, Response("interrupted"))
  ELSE LET s1 == [s EXCEPT !.frames = {[g EXCEPT !.intrMsg = TRUE] : g \in @}] IN
       IF s1.currentQuery # NoHandle
       THEN [s1 EXCEPT !.interrupts = @ \cup {[n |-> s.nInterrupts,
                                               target |-> s.currentQuery]}]
       ELSE interruptFallback(s1)

handleInterrupt(s) ==
  IF ~s.processing THEN s
  ELSE LET s1 == [s EXCEPT !.frames = {[g EXCEPT !.intrMsg = TRUE] : g \in @}] IN
       IF s1.currentQuery # NoHandle
       THEN [s1 EXCEPT !.interrupts = @ \cup {[n |-> s.nInterrupts,
                                               target |-> s.currentQuery]}]
       ELSE interruptFallback(s1)

\* the awaited query.interrupt() settled
interruptSettled(s, a, ok) ==
  LET s1 == [s EXCEPT !.interrupts = @ \ {a}] IN
  IF ok THEN sendInterrupted(Stop(s1, a.target))
  ELSE interruptFallback(s1)


\* ---- SecurityManager -----------------------------------------------------

\* A path string is a sequence of characters; a path is given by its segments.
Chars(seg) ==
  CASE seg = "w" -> <<"w">>
    [] seg = "wx" -> <<"w", "x">>
    [] seg = "o" -> <<"o">>
    [] seg = "f" -> <<"f">>
    [] seg = ".." -> <<".", ".">>
    [] OTHER -> <<".">>

RawPath(abs, segs) == [abs |-> abs, segs |-> segs]

WorkDir == RawPath(TRUE, <<"w">>)
\* process.cwd(), against which path.resolve resolves a relative path
Cwd == <<"w">>

RECURSIVE Normalize(_, _)
Normalize(segs, acc) ==
  IF segs = <<>> THEN acc
  ELSE LET h == Head(segs) IN
       IF h = "." THEN Normalize(Tail(segs), acc)
       ELSE IF h = ".."
       THEN Normalize(Tail(segs),
                      IF acc = <<>> THEN acc ELSE SubSeq(acc, 1, Len(acc) - 1))
       ELSE Normalize(Tail(segs), Append(acc, h))

RECURSIVE JoinSegs(_)
JoinSegs(segs) ==
  IF segs = <<>> THEN <<>>
  ELSE <<"/">> \o Chars(Head(segs)) \o JoinSegs(Tail(segs))

\* path.resolve: an absolute, normalized path string
resolve(p) ==
  LET segs == Normalize(IF p.abs THEN p.segs ELSE Cwd \o p.segs, <<>>) IN
  IF segs = <<>> THEN <<"/">> ELSE JoinSegs(segs)

startsWith(x, prefix) ==
  Len(prefix) <= Len(x) /\ SubSeq(x, 1, Len(prefix)) = prefix

isPathTrusted(s, p) ==
  LET normalized == resolve(p) IN
  \E trusted \in s.trustedPaths :
    normalized = trusted \/ startsWith(normalized, trusted \o <<"/">>)

\* Faulty variant: the new path replaces the set
addTrustedPathReplace(s, p) == [s EXCEPT !.trustedPaths = {resolve(p)}]

addTrustedPath(s, p) == [s EXCEPT !.trustedPaths = @ \cup {resolve(p)}]

\* A Bash command is its words followed by the path tokens it names.
SAFE_SYSTEM_COMMANDS ==
  {<<"nvidia-smi">>, <<"df">>, <<"free">>, <<"uptime">>, <<"whoami">>,
   <<"hostname">>, <<"cat", "/proc/cpuinfo">>, <<"cat", "/proc/meminfo">>,
   <<"ps">>, <<"top", "-bn1">>, <<"ls">>, <<"pwd">>, <<"date">>, <<"which">>,
   <<"echo">>, <<"git", "status">>, <<"git", "log">>, <<"git", "diff">>}

\* trimmed === safe || trimmed.startsWith(safe + " "), on the command's tokens
isSafeCommand(command) ==
  \E safe \in SAFE_SYSTEM_COMMANDS :
    /\ Len(safe) <= Len(command.words)
    /\ SubSeq(command.words, 1, Len(safe)) = safe

\* extractPathsFromText: the tokens that start with /, ./ or ../
extractPathsFromText(command) == command.paths

extractPathsFromToolInput(toolName, input) ==
  CASE toolName \in {"Read", "Write", "Edit"} ->
         IF "file_path" \in DOMAIN input THEN <<input.file_path>> ELSE <<>>
    [] toolName = "Bash" ->
         IF "command" \in DOMAIN input THEN extractPathsFromText(input.command)
         ELSE <<>>
    [] toolName \in {"Glob", "Grep"} ->
         IF "path" \in DOMAIN input THEN <<input.path>> ELSE <<>>
    [] OTHER -> <<>>

Outside == RawPath(TRUE, <<"o">>)
OutsideFile == RawPath(TRUE, <<"o", "f">>)
Sibling == RawPath(TRUE, <<"wx">>)
Inside == RawPath(TRUE, <<"w", "f">>)
Escaping == RawPath(FALSE, <<"..", "o", "f">>)
Root == RawPath(TRUE, <<>>)

Command(words, paths) == [words |-> words, paths |-> paths]

\* the tool calls the SDK asks permission for
ToolCalls ==
  {[toolName |-> "Read", input |-> [file_path |-> Inside]],
   [toolName |-> "Write", input |-> [file_path |-> OutsideFile]],
   [toolName |-> "Edit", input |-> [file_path |-> Escaping]],
   [toolName |-> "Glob", input |-> [path |-> Sibling]],
   [toolName |-> "Bash", input |-> [command |-> Command(<<"ls">>, <<Outside>>)]],
   [toolName |-> "Bash", input |-> [command |-> Command(<<"rm">>, <<OutsideFile>>)]],
   [toolName |-> "WebFetch", input |-> [url |-> "u"]]}

TrustRequests == {Outside, Root}

Untrusted(s, paths) == {i \in DOMAIN paths : ~isPathTrusted(s, paths[i])}

\* the promise of call c is resolved (a second resolve of a promise is a no-op)
settlePromise(s, id, behavior, message, approvedMsg) ==
  [s EXCEPT !.parked = {c \in @ : c.id # id},
            !.resolved = @ \cup {[c EXCEPT !.behavior = behavior,
                                            !.message = message,
                                            !.approvedMsg = approvedMsg]
                                 : c \in {d \in s.parked : d.id = id}}]

\* security.onApprovalNeeded as wired by the VibeAgent constructor
onApprovalNeeded(s, untrusted, toolName) ==
  send(s, Msg("approval_required", untrusted, toolName))

canUseTool(s, c) ==
  LET paths == extractPathsFromToolInput(c.toolName, c.input)
      untrusted == Untrusted(s, paths)
      call == [c EXCEPT !.untrusted = untrusted]
      answer(behavior) ==
        [s EXCEPT !.resolved = @ \cup {[call EXCEPT !.behavior = behavior]}]
  IN
  IF untrusted = {} THEN answer("allow")
  ELSE IF c.toolName = "Bash" /\ "command" \in DOMAIN c.input
          /\ isSafeCommand(c.input.command)
  THEN answer("allow")
  ELSE [onApprovalNeeded(s, untrusted, c.toolName)
          EXCEPT !.pendingApproval = {[id |-> c.id, toolName |-> c.toolName,
                                       input |-> c.input]},
                 !.parked = @ \cup {call}]

RECURSIVE addTrustedPaths(_, _)
addTrustedPaths(s, paths) ==
  IF paths = <<>> THEN s
  ELSE addTrustedPaths(addTrustedPath(s, Head(paths)), Tail(paths))

\* Faulty variant: the approved flag is not consulted
resolveApprovalAlwaysAllow(s, approved, permanent) ==
  IF s.pendingApproval = {} THEN s
  ELSE LET pa == CHOOSE x \in s.pendingApproval : TRUE
           s1 == IF permanent
                 THEN addTrustedPaths(s, extractPathsFromToolInput(pa.toolName, pa.input))
                 ELSE s
       IN [settlePromise(s1, pa.id, "allow", "", approved) EXCEPT !.pendingApproval = {}]

\* Faulty variant: the pending slot is not cleared
resolveApprovalKeepSlot(s, approved, permanent) ==
  IF s.pendingApproval = {} THEN s
  ELSE LET pa == CHOOSE x \in s.pendingApproval : TRUE
           s1 == IF approved /\ permanent
                 THEN addTrustedPaths(s, extractPathsFromToolInput(pa.toolName, pa.input))
                 ELSE s
       IN IF approved
          THEN settlePromise(s1, pa.id, "allow", "", approved)
          ELSE settlePromise(s1, pa.id, "deny", "denied by user", approved)

\* Faulty variant: every approval is treated as permanent
resolveApprovalTrustOnce(s, approved, permanent) ==
  IF s.pendingApproval = {} THEN s
  ELSE LET pa == CHOOSE x \in s.pendingApproval : TRUE
           s1 == IF approved
                 THEN addTrustedPaths(s, extractPathsFromToolInput(pa.toolName, pa.input))
                 ELSE s
           s2 == IF approved
                 THEN settlePromise(s1, pa.id, "allow", "", approved)
                 ELSE settlePromise(s1, pa.id, "deny", "denied by user", approved)
       IN [s2 EXCEPT !.pendingApproval = {}]

resolveApproval(s, approved, permanent) ==
  IF s.pendingApproval = {} THEN s
  ELSE LET pa == CHOOSE x \in s.pendingApproval : TRUE
           s1 == IF approved /\ permanent
                 THEN addTrustedPaths(s, extractPathsFromToolInput(pa.toolName, pa.input))
                 ELSE s
           s2 == IF approved
                 THEN settlePromise(s1, pa.id, "allow", "", approved)
                 ELSE settlePromise(s1, pa.id, "deny", "denied by user", approved)
       IN [s2 EXCEPT !.pendingApproval = {}]

\* Faulty variant: the listener denies the call and leaves the slot
onAbortKeepSlot(s, c) ==
  settlePromise(s, c.id, "deny", "Operation aborted", FALSE)

\* the abort listener canUseTool installed for call c
onAbort(s, c) ==
  settlePromise([s EXCEPT !.pendingApproval = {}], c.id, "deny", "Operation aborted", FALSE)

RECURSIVE onAbortAll(_, _)
onAbortAll(s, cs) ==
  IF cs = {} THEN s
  ELSE LET c == CHOOSE d \in cs : \A e \in cs : d.id <= e.id IN
       onAbortAll(onAbort(s, c), cs \ {c})

NewCall(id, tc) ==
  [id |-> id, toolName |-> tc.toolName, input |-> tc.input, untrusted |-> {},
   behavior |-> "parked", message |-> "", approvedMsg |-> FALSE]

\* ---- actions -------------------------------------------------------------

Init ==
  /\ processing = FALSE
  /\ pendingScheduledTasks = <<>>
  /\ frames = {}
  /\ currentQuery = NoHandle
  /\ abortController = NoHandle
  /\ sessionId \in {NONE} \cup StoredSessionIds
  /\ sessionFile = sessionId
  /\ sessionStarted = FALSE
  /\ interrupts = {}
  /\ out = <<>>
  /\ wire = <<>>
  /\ lastDone = NoRun
  /\ nQueries = 0
  /\ nFired = 0
  /\ nInterrupts = 0
  /\ trustedPaths = {resolve(WorkDir)}
  /\ pendingApproval = {}
  /\ parked = {}
  /\ resolved = {}
  /\ nCalls = 0
  /\ nTrustMsgs = 0
  /\ sdkReported = sessionFile
  /\ mainPc = "start"
  /\ ws = "null"
  /\ connectPromise = <<"none", "">>
  /\ pingInterval = FALSE
  /\ signalled = FALSE
  /\ closing = FALSE
  /\ uiAsked = 0
  /\ tasks = StartedScheduler.tasks
  /\ cronJobs = StartedScheduler.cronJobs
  /\ runningJobs = StartedScheduler.runningJobs
  /\ scheduleFile = tasks
  /\ firedTask = <<>>
  /\ sessionDir = IF sessionId = NONE THEN EmptyDir
                  ELSE saveSessionId(EmptyDir, AgentWorkDir, sessionId)
  /\ loaded = sessionId
  /\ sdkQuery = {}
  /\ nAdds = 0
  /\ nSessionInfos = 0

QueryMsg ==
  /\ nQueries < MaxQueries
  /\ Commit(handleQuery([Begin EXCEPT !.nQueries = @ + 1]))

CronFire ==
  /\ nFired < MaxFirings
  /\ Commit(onTaskFire([Begin EXCEPT !.nFired = @ + 1], nFired + 1))

InterruptMsg ==
  /\ nInterrupts < MaxInterrupts
  /\ Commit(handleInterrupt([Begin EXCEPT !.nInterrupts = @ + 1]))

InterruptSettle ==
  \E a \in interrupts, ok \in BOOLEAN : Commit(interruptSettled(Begin, a, ok))

SdkTextDelta ==
  \E f \in frames, sid \in SessionIds :
    /\ f.pc = "exec"
    /\ f.chunkIndex < MaxChunks
    /\ Commit(onStreamingChunk(Reported(Begin, sid), captureSessionId(f, sid)))

SdkToolUse ==
  \E f \in frames, sid \in SessionIds, t \in ToolUseIds :
    /\ f.pc = "exec"
    /\ t \notin f.toolUseIdMap
    /\ Commit(onToolUse(Reported(Begin, sid), captureSessionId(f, sid), t))

SdkToolResult ==
  \E f \in frames, sid \in SessionIds, t \in ToolUseIds :
    /\ f.pc = "exec"
    /\ t \in f.sdkOpen
    /\ Commit(onToolResult(Reported(Begin, sid), captureSessionId(f, sid), t))

\* the stream ends with its result message, which carries one of the given
\* session ids: execute returns to its caller
SdkResultOf(ids) ==
  \E f \in frames, sid \in ids, shot \in BOOLEAN :
    /\ f.pc = "exec"
    /\ LET g == captureSessionId(f, sid)
           s1 == executeReturn(Reported(Begin, sid), g) IN
       IF g.kind = "task" THEN Commit(runScheduledTaskRespond(s1, g))
       ELSE IF shot THEN Commit(PutFrame(s1, [g EXCEPT !.pc = "post"]))
       ELSE Commit(handleQueryRespond(s1, g))

\* the stream of a new session ends
SdkResult == SdkResultOf(SessionIds)

\* the stream ends, of a session that may be the resumed one or carry no id
SdkResultResumed == SdkResultOf(SdkSessionIds)

\* generateScreenshot settled
ScreenshotDone ==
  \E f \in frames :
    /\ f.pc = "post"
    /\ Commit(handleQueryRespond(Begin, f))

\* the stream throws
SdkThrow ==
  \E f \in frames, err \in {"abort", "stale", "other"} :
    /\ f.pc = "exec"
    /\ err = "abort" => f.aborted
    /\ IF err # "abort" /\ IsStaleSession(Begin, err)
       THEN Commit(executeRetry(Begin, f))
       ELSE LET s1 == executeFinally(Begin) IN
            IF f.kind = "task" THEN Commit(runScheduledTaskCatch(s1, f, err))
            ELSE Commit(handleQueryCatch(s1, f, err))

\* Dispatch: inbound messages, cron firings and the ways a stream ends.
Next ==
  \/ QueryMsg
  \/ CronFire
  \/ InterruptMsg
  \/ InterruptSettle
  \/ SdkResult
  \/ ScreenshotDone
  \/ SdkThrow

Spec == Init /\ [][Next]_vars

\* Every promise the handlers await settles: the stream of a live query ends,
\* the screenshot collaborator returns, query.interrupt() settles.
Settle == SdkResult \/ SdkThrow \/ ScreenshotDone \/ InterruptSettle

\* ENABLED <<Settle>>_vars spelled out: a live activation awaits its stream or
\* its screenshot, a handleInterrupt activation awaits query.interrupt()
SettleEnabled == frames # {} \/ interrupts # {}

\* weak fairness of Settle, WF_vars(Settle), with ENABLED spelled out
Fairness == []<>(~SettleEnabled) \/ []<><<Settle>>_vars

LiveSpec == Init /\ [][Next]_vars /\ Fairness

\* The executor's event loop in detail, for queries and interrupts.
StreamNext ==
  \/ QueryMsg
  \/ InterruptMsg
  \/ InterruptSettle
  \/ SdkTextDelta
  \/ SdkToolUse
  \/ SdkToolResult
  \/ SdkResult
  \/ ScreenshotDone
  \/ SdkThrow

StreamSpec == Init /\ [][StreamNext]_vars


SessionInfoMsg ==
  \E id \in {NONE} \cup ServerSessionIds, source \in {"server", "agent"} :
    /\ nSessionInfos < MaxSessionInfos
    /\ Commit(handleSessionInfo([Begin EXCEPT !.nSessionInfos = @ + 1], id, source))

\* Session handling: queries, session_info messages and the stream of a query.
SessionNext ==
  \/ QueryMsg
  \/ SessionInfoMsg
  \/ SdkTextDelta
  \/ SdkResult
  \/ ScreenshotDone
  \/ SdkThrow

SessionSpec == Init /\ [][SessionNext]_vars

\* Session resumption: queries and cron firings whose streams report the
\* resumed id, a new id or none, stale-session failures and session_info.
ResumeNext ==
  \/ QueryMsg
  \/ CronFire
  \/ SessionInfoMsg
  \/ SdkResultResumed
  \/ ScreenshotDone
  \/ SdkThrow

ResumeSpec == Init /\ [][ResumeNext]_vars

Running == mainPc # "exit"

\* main calls connect: at start, and when the reconnect delay has passed
MainConnect ==
  \E thrown \in {""} \cup ConstructorErrors :
    /\ mainPc \in {"start", "sleep"}
    /\ Commit(IF thrown = "" THEN connect(Begin) ELSE connectThrows(Begin, thrown))

\* main's await of connect returns or throws
MainResume ==
  /\ mainPc = "connect"
  /\ connectPromise[1] \in {"resolved", "rejected"}
  /\ Commit(mainResume(Begin))

WsOpen ==
  /\ Running
  /\ ws = "connecting"
  /\ Commit(onOpen(Begin))

WsClose ==
  /\ Running
  /\ ws \in {"connecting", "open", "errored"}
  /\ Commit(onClose(Begin))

\* the socket emits error: a socket whose handshake failed emits close in the
\* same turn, an open socket when its closing handshake ends or times out
WsError ==
  \E message \in ErrorMessages :
    /\ Running
    /\ ws \in {"connecting", "open"}
    /\ (message = "connect ECONNREFUSED") <=> (ws = "connecting")
    /\ IF ws = "connecting"
       THEN Commit(onClose(onError(Begin, message)))
       ELSE Commit(onError(Begin, message))

\* main calls connect when the socket it replaces has emitted error and not
\* yet close: the close event of that socket is still to come
MainConnectBeforeClose ==
  /\ mainPc = "sleep"
  /\ ws = "errored"
  /\ Commit([connect(Begin) EXCEPT !.closing = TRUE])

\* the close event of an earlier socket that had emitted error
WsCloseEarlier ==
  /\ Running
  /\ closing
  /\ Commit(onCloseEarlier(Begin))

PingTick ==
  /\ Running
  /\ pingInterval
  /\ Commit(send(Begin, Msg("ping", "", 0)))

Signal ==
  /\ Running
  /\ Commit(onSignal(Begin))

\* The connection loop, with the queries and session messages that arrive
\* over the open socket and the ends of the streams they start.
ConnNext ==
  \/ MainConnect
  \/ MainResume
  \/ WsOpen
  \/ WsClose
  \/ WsError
  \/ PingTick
  \/ Signal
  \/ (Running /\ ws = "open" /\ QueryMsg)
  \/ (Running /\ ws = "open" /\ SessionInfoMsg)
  \/ (Running /\ SdkResult)
  \/ (Running /\ ScreenshotDone)
  \/ (Running /\ SdkThrow)

\* The event loop runs main's continuation once connect's promise has settled,
\* and the reconnect timer fires.
ConnSpec ==
  Init /\ [][ConnNext]_vars /\ WF_vars(MainResume) /\ WF_vars(MainConnect)

\* The link to the server: the sockets of successive connect calls, with the
\* late close of a socket that was replaced after an error.
LinkNext ==
  \/ MainConnect
  \/ MainConnectBeforeClose
  \/ MainResume
  \/ WsOpen
  \/ WsClose
  \/ WsError
  \/ WsCloseEarlier
  \/ PingTick
  \/ (Running /\ ws = "open" /\ QueryMsg)
  \/ (Running /\ SdkResult)
  \/ (Running /\ ScreenshotDone)
  \/ (Running /\ SdkThrow)

LinkSpec == Init /\ [][LinkNext]_vars

ScheduleAddMsg ==
  \E cronExpr \in CronExprs :
    /\ nAdds < MaxAdds
    /\ Commit(handleScheduleAdd([Begin EXCEPT !.nAdds = @ + 1], cronExpr))

ScheduleRemoveMsg ==
  \E id \in TaskIds : Commit(removeTask(Begin, id).state)

ScheduleToggleMsg ==
  \E id \in TaskIds, enabled \in BOOLEAN : Commit(toggleTask(Begin, id, enabled).state)

ScheduleListMsg ==
  Commit(send(Begin, Msg("schedule_list_response", tasks, 0)))

\* the cron job of a task fires: onTaskFire is called with that task
JobFire ==
  \E id \in cronJobs :
    /\ nFired < MaxFirings
    /\ Commit(onTaskFire([Begin EXCEPT !.nFired = @ + 1, !.firedTask = Append(@, id)],
                         nFired + 1))

\* The schedule messages of the UI.
SchedNext ==
  \/ ScheduleAddMsg
  \/ ScheduleRemoveMsg
  \/ ScheduleToggleMsg
  \/ ScheduleListMsg

SchedSpec == Init /\ [][SchedNext]_vars

\* Scheduled tasks from their jobs to their executions: firings of the jobs
\* that are armed, removals and toggles, queries, and the ends of streams.
TaskNext ==
  \/ JobFire
  \/ ScheduleRemoveMsg
  \/ ScheduleToggleMsg
  \/ QueryMsg
  \/ SdkResult
  \/ ScreenshotDone
  \/ SdkThrow

TaskSpec == Init /\ [][TaskNext]_vars

\* the store's functions applied to the session directory (the agent calls them
\* for its own directory; other agents of this user call them for theirs)
SaveSession ==
  \E w \in StoreWorkDirs, id \in StoreSessionIds :
    LET dir == saveSessionId(sessionDir, w, id) IN
    Commit([Begin EXCEPT !.sessionDir = dir,
                         !.sessionFile = loadSessionId(dir, AgentWorkDir)])

LoadSession ==
  \E w \in StoreWorkDirs :
    Commit([Begin EXCEPT !.loaded = loadSessionId(sessionDir, w)])

ClearSession ==
  \E w \in StoreWorkDirs :
    LET dir == clearSessionId(sessionDir, w) IN
    Commit([Begin EXCEPT !.sessionDir = dir,
                         !.sessionFile = loadSessionId(dir, AgentWorkDir)])

StoreNext ==
  \/ SaveSession
  \/ LoadSession
  \/ ClearSession

StoreSpec == Init /\ [][StoreNext]_vars

\* the SDK asks permission for a tool call of the query being iterated
SdkCanUseTool ==
  \E tc \in ToolCalls :
    /\ nCalls < MaxCalls
    /\ Commit(canUseTool([Begin EXCEPT !.nCalls = @ + 1], NewCall(nCalls + 1, tc)))

ApprovalMsg ==
  \E approved \in BOOLEAN, permanent \in BOOLEAN :
    Commit(resolveApproval(Begin, approved, permanent))

AddTrustedPathMsg ==
  \E p \in TrustRequests :
    /\ nTrustMsgs < MaxTrustMsgs
    /\ Commit(addTrustedPath([Begin EXCEPT !.nTrustMsgs = @ + 1], p))

\* the abort signal of the query fires: every listener still parked runs
AbortSignal ==
  /\ parked # {}
  /\ Commit(onAbortAll(Begin, parked))

\* The security mediator: permission calls, approvals, trust additions, abort.
SecNext ==
  \/ SdkCanUseTool
  \/ ApprovalMsg
  \/ AddTrustedPathMsg
  \/ AbortSignal

SecSpec == Init /\ [][SecNext]_vars

\* the UI receives the frames the step wrote to the socket
Delivered(s) ==
  [s EXCEPT !.uiAsked = @ + Cardinality({i \in DOMAIN s.wire :
                                          s.wire[i].type = "approval_required"})]

\* main calls connect and the WebSocket constructor does not throw
MainReconnect ==
  /\ mainPc \in {"start", "sleep"}
  /\ Commit(connect(Begin))

\* the tool calls of the running query: a trusted path, an untrusted path,
\* and a safe and an unsafe command on an untrusted path
QueryToolCalls == {tc \in ToolCalls : tc.toolName \in {"Read", "Write", "Bash"}}

\* the SDK asks permission for a tool call of the query being iterated, one
\* tool call at a time
PermissionCall ==
  \E tc \in QueryToolCalls :
    /\ nCalls < MaxCalls
    /\ \E f \in frames : f.pc = "exec"
    /\ parked = {}
    /\ Commit(Delivered(canUseTool([Begin EXCEPT !.nCalls = @ + 1],
                                   NewCall(nCalls + 1, tc))))

\* the UI answers an approval_required it received; its answer arrives over
\* the open socket
UiApproval ==
  \E approved \in BOOLEAN, permanent \in BOOLEAN :
    /\ ws = "open"
    /\ uiAsked > 0
    /\ Commit([resolveApproval(Begin, approved, permanent) EXCEPT !.uiAsked = @ - 1])

\* Approvals over the link: the socket opens, drops and is replaced; queries
\* arrive over the open socket; the SDK asks permission for tool calls of the
\* running query and does not end its stream while a call is suspended.
ApprovalNext ==
  \/ MainReconnect
  \/ MainResume
  \/ WsOpen
  \/ WsClose
  \/ (ws = "open" /\ QueryMsg)
  \/ PermissionCall
  \/ UiApproval
  \/ AbortSignal
  \/ (parked = {} /\ SdkResult)
  \/ ScreenshotDone

\* The UI answers every approval_required it received, and the connection is
\* re-established after every drop: main resumes and reconnects, and a socket
\* that is being connected again and again opens.
ApprovalSpec ==
  /\ Init /\ [][ApprovalNext]_vars
  /\ SF_uiAsked(UiApproval)
  /\ WF_mainPc(MainReconnect) /\ WF_mainPc(MainResume) /\ SF_ws(WsOpen)

\* ---- properties ----------------------------------------------------------

LiveExecutes == {f \in frames : f.pc = "exec"}

\* The activation the last step completed ran with no interrupt: no interrupt
\* message was handled while it held the slot and no interrupt reached it.
Uninterrupted(d) == ~d.intrMsg /\ d.intrResp = 0 /\ ~d.aborted

\* C1: at most one execute call is in progress (a retry belongs to the call
\* that started it), and only while processing is true.
C1_SingleFlight ==
  /\ Cardinality(LiveExecutes) <= 1
  /\ LiveExecutes # {} => processing

\* an execute is live while a second query, a cron firing and an interrupt
\* have all been handled
C1_Witness ==
  /\ LiveExecutes # {}
  /\ nQueries >= 2
  /\ pendingScheduledTasks # <<>>
  /\ interrupts # {}

\* C2 (as claimed): a call with an untrusted path is allowed only after a
\* positive approval arrived while it was the pending approval.
C2_AllowNeedsApproval ==
  \A c \in resolved :
    (c.behavior = "allow" /\ c.untrusted # {}) => c.approvedMsg

\* C2 (amended): ... or the tool is Bash and its command is a safe command.
C2_AllowNeedsApprovalOrSafe ==
  \A c \in resolved :
    (c.behavior = "allow" /\ c.untrusted # {})
    => \/ c.approvedMsg
       \/ c.toolName = "Bash" /\ isSafeCommand(c.input.command)

\* a parked call on an untrusted path was just allowed by an approval while
\* another call is still parked
C2_Witness ==
  /\ \E c \in resolved :
       c.behavior = "allow" /\ c.untrusted # {} /\ c.approvedMsg /\ c.toolName # "Bash"
  /\ parked # {}

\* C3: a query handled while an accepted query has had no terminal response
\* yet gets one busy response, starts no execute, and leaves processing and
\* the pending-task queue as they were.
C3_OverlapRejected ==
  [][(/\ nQueries' = nQueries + 1
      /\ \E f \in frames : f.kind = "query" /\ f.intrResp = 0)
     => /\ out' = <<Response("busy")>>
        /\ frames' = frames
        /\ currentQuery' = currentQuery
        /\ abortController' = abortController
        /\ processing' = processing
        /\ pendingScheduledTasks' = pendingScheduledTasks]_vars

\* the second query was just answered busy while the first is still live
C3_Witness ==
  /\ out = <<Response("busy")>>
  /\ nQueries = 2
  /\ \E f \in frames : f.kind = "query" /\ f.intrResp = 0

\* C4 (as claimed): an execution that got the 'interrupted' response of
\* handleInterrupt gets no result or error response from its own handler.
C4_NoSecondTerminal ==
  (lastDone.intrMsg /\ lastDone.intrResp > 0) => lastDone.resp = 0

\* C5: an accepted query that completes without interrupt sends exactly one
\* terminal response: the result when execute returned, the error string when
\* it threw.
C5_OneTerminalResponse ==
  (lastDone.kind = "query" /\ Uninterrupted(lastDone))
  => /\ lastDone.resp = 1
     /\ lastDone.outcome \in {"return", "throw"}
     /\ lastDone.outcome = "return" => lastDone.respKind = "result"
     /\ lastDone.outcome = "throw" => lastDone.respKind = "error"

\* a query whose execute threw after a stale-session retry has just completed
C5_Witness ==
  /\ lastDone.kind = "query"
  /\ Uninterrupted(lastDone)
  /\ lastDone.outcome = "throw"
  /\ lastDone.attempt = 2

\* C6 (as claimed): the streaming_chunk indices of an uninterrupted query,
\* retry included, are 0,1,2,... in delivery order.
C6_ChunksContiguous ==
  (lastDone.kind = "query" /\ Uninterrupted(lastDone)) => lastDone.chunkOK

\* C7 (as claimed): every tool_status start has had its end, with the same
\* tool name, when the terminal response is due, and no end came without a
\* start.
C7_ToolStartsEnded ==
  lastDone.kind # "none" => (lastDone.openTools = 0 /\ lastDone.endOK)

\* C8 (as claimed): a scheduled-task execution that was not aborted sends
\* exactly one response.
C8_TaskFiringResponds ==
  (lastDone.kind = "task" /\ lastDone.outcome # "abort") => lastDone.resp = 1

\* C9: a cron firing while processing is true appends the task to the queue,
\* starts no execute, sends nothing and leaves processing alone.
C9_BusyFiringQueued ==
  [][(nFired' = nFired + 1 /\ processing)
     => /\ pendingScheduledTasks' = Append(pendingScheduledTasks, nFired + 1)
        /\ frames' = frames
        /\ currentQuery' = currentQuery
        /\ abortController' = abortController
        /\ out' = <<>>
        /\ processing' = processing]_vars

\* the latest firing sits at the tail of the queue behind a live execution
C9_Witness ==
  /\ processing
  /\ nFired > 0
  /\ pendingScheduledTasks # <<>>
  /\ pendingScheduledTasks[Len(pendingScheduledTasks)] = nFired
  /\ out = <<>>
  /\ LiveExecutes # {}

InQueue(t) == \E i \in DOMAIN pendingScheduledTasks : pendingScheduledTasks[i] = t
Executing(t) == \E f \in frames : f.kind = "task" /\ f.firing = t /\ f.pc = "exec"

\* C10: when every awaited promise settles, a queued task is eventually
\* shifted off the queue and execute is invoked for it.
C10_QueueDrains == \A t \in 1..MaxFirings : InQueue(t) ~> Executing(t)

\* the step that released the slot started the task that was queued behind it
C10_Witness ==
  /\ lastDone.kind # "none"
  /\ \E f \in frames : f.kind = "task" /\ f.pc = "exec"
  /\ pendingScheduledTasks # <<>>

\* the task frames that are executing
TaskFrames == {f \in frames : f.kind = "task" /\ f.pc = "exec"}

\* C11: the queue only grows at its tail and shrinks at its head, one task per
\* release of the slot, and the task taken off is the one that starts.
C11_FifoOneShift ==
  [][\/ pendingScheduledTasks' = pendingScheduledTasks
     \/ \E t \in 1..MaxFirings :
          pendingScheduledTasks' = Append(pendingScheduledTasks, t)
     \/ /\ pendingScheduledTasks # <<>>
        /\ pendingScheduledTasks' = Tail(pendingScheduledTasks)
        /\ lastDone'.kind # "none"
        /\ TaskFrames' = {f \in frames' : f.firing = Head(pendingScheduledTasks)}
        /\ Cardinality(TaskFrames') = 1]_vars

\* the older of two queued tasks has just been started, the newer still waits
C11_Witness ==
  /\ lastDone.kind # "none"
  /\ Len(pendingScheduledTasks) >= 1
  /\ \E f \in TaskFrames : \A i \in DOMAIN pendingScheduledTasks :
       f.firing < pendingScheduledTasks[i]

\* handleQuery has just returned: by its busy reply or through its finally
HandleQueryReturned == lastDone.kind = "query" \/ out = <<Response("busy")>>

DrainingOne == Cardinality(TaskFrames) = 1 /\ Cardinality(frames) = 1

\* C12 (as claimed): after handleQuery returns on any path, processing is
\* false and the queue is empty or exactly one task is being drained.
C12_ReturnedIdleOrDraining ==
  HandleQueryReturned
  => /\ ~processing
     /\ pendingScheduledTasks = <<>> \/ DrainingOne

\* C12 (amended): after the busy reply processing is still true and the queue
\* is untouched; after any other return the slot was released, and either the
\* queue was empty and processing is false, or exactly the head of the queue
\* was shifted off and is executing with processing true.
C12_ReturnedReleasedOrBusy ==
  [][/\ out' = <<Response("busy")>>
        => /\ processing' /\ processing
           /\ pendingScheduledTasks' = pendingScheduledTasks
           /\ frames' = frames
     /\ lastDone'.kind = "query"
        => IF pendingScheduledTasks = <<>>
           THEN ~processing' /\ frames' = {} /\ pendingScheduledTasks' = <<>>
           ELSE /\ processing'
                /\ pendingScheduledTasks' = Tail(pendingScheduledTasks)
                /\ DrainingOne'
                /\ \A f \in frames' : f.firing = Head(pendingScheduledTasks)]_vars

\* a query has just returned by its catch block and a queued task took the slot
C12_Witness ==
  /\ lastDone.kind = "query"
  /\ lastDone.outcome = "throw"
  /\ processing
  /\ DrainingOne

\* C13 (as claimed): at most one canUseTool call is suspended on an approval,
\* and the pending slot holds that call's resolver, tool name and input.
C13_OneApprovalOutstanding ==
  /\ Cardinality(parked) <= 1
  /\ \A c \in parked :
       pendingApproval = {[id |-> c.id, toolName |-> c.toolName, input |-> c.input]}

\* C14 (as claimed): one top-level execute call makes at most one retry.
C14_RetryOnce ==
  /\ \A f \in frames : f.attempt <= 2
  /\ lastDone.attempt <= 2

\* C15 (as claimed): the persisted session id is absent or the id the SDK
\* reported last.
C15_PersistedIsLastReported ==
  sessionFile = NONE \/ sessionFile = sdkReported

\* connect's promise has settled: the socket closed or failed, or connect threw
Disconnected == connectPromise[1] \in {"resolved", "rejected"}

C16_ResolveApprovalIdempotent ==
  \A a \in BOOLEAN, p \in BOOLEAN :
    LET once == resolveApproval(S, a, p) IN
    /\ \A a2 \in BOOLEAN, p2 \in BOOLEAN : resolveApproval(once, a2, p2) = once
    /\ pendingApproval = {} => once = S

\* an approval is pending whose permanent approval would extend the trusted set
C16_Witness ==
  /\ pendingApproval # {}
  /\ \E c \in parked : c.id = (CHOOSE x \in pendingApproval : TRUE).id
  /\ resolveApproval(S, TRUE, TRUE).trustedPaths # trustedPaths
  /\ resolveApproval(S, FALSE, FALSE).resolved # resolved

\* the paths the trust predicates are asked about
PathInputs == {WorkDir, Inside, Sibling, Outside, OutsideFile, Escaping, Root}

\* the segments of a path once resolved
Segments(p) == Normalize(IF p.abs THEN p.segs ELSE Cwd \o p.segs, <<>>)

\* d is p or lies below p in the directory tree
IsDescendant(d, p) ==
  /\ Len(Segments(p)) <= Len(Segments(d))
  /\ SubSeq(Segments(d), 1, Len(Segments(p))) = Segments(p)

\* C17 (as claimed): addTrustedPath(p) twice equals once, and once p was
\* added every descendant of p is trusted, the filesystem root included.
C17_AddTrustsDescendants ==
  \A p \in PathInputs :
    /\ addTrustedPath(addTrustedPath(S, p), p) = addTrustedPath(S, p)
    /\ resolve(p) \in trustedPaths
       => \A d \in PathInputs : IsDescendant(d, p) => isPathTrusted(S, d)

\* q is t, or t is a prefix of q that ends at a path separator
PrefixAtSeparator(q, t) ==
  \/ q = t
  \/ /\ startsWith(q, t)
     /\ t[Len(t)] = "/" \/ q[Len(t) + 1] = "/"

\* C18 (as claimed): isPathTrusted(q) exactly when the resolved q equals a
\* member of the trusted set or has it as a prefix ending at a separator.
C18_TrustedIffPrefix ==
  \A q \in PathInputs :
    isPathTrusted(S, q) <=> \E trusted \in trustedPaths : PrefixAtSeparator(resolve(q), trusted)

\* C20: a schedule_add with an invalid expression changes nothing and is
\* answered success=false; with a valid one the task is appended, persisted
\* and armed and the answer carries it; so every listed task has a valid
\* expression.
C20_InvalidCronRejected ==
  /\ [](\A i \in DOMAIN tasks : validate(tasks[i].cron))
  /\ [][nAdds' = nAdds + 1
        => /\ Len(out') = 1
           /\ out'[1].type = "schedule_add_response"
           /\ IF out'[1].a
              THEN /\ validate(out'[1].b.cron)
                   /\ out'[1].b.enabled
                   /\ tasks' = Append(tasks, out'[1].b)
                   /\ scheduleFile' = tasks'
                   /\ cronJobs' = cronJobs \cup {out'[1].b.id}
                   /\ \A i \in DOMAIN tasks : tasks[i].id # out'[1].b.id
              ELSE /\ ~validate(out'[1].b.error)
                   /\ tasks' = tasks
                   /\ scheduleFile' = scheduleFile
                   /\ cronJobs' = cronJobs]_vars

\* an out-of-range expression has just been rejected while a task is listed
C20_Witness ==
  /\ Len(out) = 1
  /\ out[1].type = "schedule_add_response"
  /\ ~out[1].a
  /\ out[1].b.error = Minute61
  /\ Len(tasks) = 2
  /\ nAdds = 2

\* C21: an interrupt message handled while processing is false sends nothing,
\* does not call the executor's interrupt() (no activation awaits it, no query
\* is stopped) and leaves every field of the agent as it was.
C21_IdleInterruptNoOp ==
  [][(nInterrupts' = nInterrupts + 1 /\ ~processing)
     => /\ out' = <<>>
        /\ interrupts' = interrupts
        /\ frames' = frames
        /\ <<processing, pendingScheduledTasks, currentQuery, abortController,
              sessionId, sessionStarted, sessionFile, trustedPaths,
              pendingApproval, tasks, cronJobs>>'
           = <<processing, pendingScheduledTasks, currentQuery, abortController,
               sessionId, sessionStarted, sessionFile, trustedPaths,
               pendingApproval, tasks, cronJobs>>]_vars

\* the interrupt was handled after a query had completed and nothing runs
C21_Witness ==
  /\ nInterrupts = 1
  /\ nQueries = 1
  /\ sessionStarted
  /\ ~processing
  /\ frames = {}
  /\ interrupts = {}
  /\ out = <<>>
  /\ lastDone.kind = "none"

\* C22: in every state of the session directory, for every working directory
\* w and session id s, loading w right after saving s for w returns s, and
\* loading w right after clearing w returns absent.
C22_SaveLoadRoundTrip ==
  \A w \in StoreWorkDirs :
    /\ \A id \in StoreSessionIds :
         loadSessionId(saveSessionId(sessionDir, w, id), w) = id
    /\ loadSessionId(clearSessionId(sessionDir, w), w) = NONE

\* a load has just returned the id saved over another directory's file of the
\* same name, while a third directory's file is present
C22_Witness ==
  /\ loaded = "s1"
  /\ loadSessionId(sessionDir, "w2") = "s1"
  /\ loadSessionId(sessionDir, "w") = NONE
  /\ sessionDir[getSessionFilePath("o")] # {}

\* C23 (as claimed): while execute is inside its SDK event loop, the loop of a
\* stale-session retry included, currentQuery and abortController refer to the
\* query being iterated, so that interrupt() finds a handle and reaches it.
C23_HandleHeldWhileIterating ==
  \A f \in LiveExecutes :
    /\ currentQuery = <<f.run, f.attempt>>
    /\ abortController = <<f.run, f.attempt>>

\* the frames whose execute the step has just started
StartedExecutes == {f \in LiveExecutes' :
                      ~\E g \in frames : g.run = f.run /\ g.attempt = f.attempt}

\* C24: an execute that starts asks the SDK to resume by the stored id iff
\* there is one at that moment, else to continue iff started is true, else
\* neither; and started turns true only in a step in which an execute that was
\* in its event loop completed without throwing.
C24_ResumePolicy ==
  [][/\ (sdkQuery' # {}) <=> (StartedExecutes # {})
     /\ \A options \in sdkQuery' :
          /\ options.resume = sessionId'
          /\ options.continue <=> (sessionId' = NONE /\ sessionStarted')
     /\ (sessionStarted' /\ ~sessionStarted)
        => \E f \in LiveExecutes :
             \/ lastDone'.run = f.run /\ lastDone'.outcome = "return"
             \/ \E g \in frames' : g.run = f.run /\ g.pc = "post"]_vars

\* an execute asked to continue the most recent session is running, started
\* by the drain of the step that completed a query
C24_Witness ==
  /\ \E f \in LiveExecutes : f.kind = "task"
  /\ sdkQuery = {[resume |-> NONE, continue |-> TRUE]}
  /\ lastDone.kind = "query"
  /\ lastDone.outcome = "return"
  /\ sessionStarted
  /\ sessionId = NONE

SessionUpdates(o) == {i \in DOMAIN o : o[i].type = "session_update"}

\* what a step that ends an execute successfully does with the id captured
SessionUpdateRule(captured) ==
  IF captured # NONE /\ captured # sessionId
  THEN /\ Cardinality(SessionUpdates(out')) = 1
       /\ \A i \in SessionUpdates(out') : out'[i].a = captured
       /\ sessionId' = captured
       /\ sessionFile' = captured
       /\ sessionDir' = saveSessionId(sessionDir, AgentWorkDir, captured)
  ELSE /\ SessionUpdates(out') = {}
       /\ sessionId' = sessionId
       /\ sessionFile' = sessionFile
       /\ sessionDir' = sessionDir

\* C25: the step in which an execute returns persists the captured session id
\* and sends one session_update iff an id was captured and differs from the
\* stored one; otherwise it persists nothing and sends no session_update.
C25_UpdateIffNewId ==
  [][\A f \in LiveExecutes :
       /\ (lastDone'.run = f.run /\ lastDone'.outcome = "return")
          => SessionUpdateRule(lastDone'.newSessionId)
       /\ \A g \in frames' :
            (g.run = f.run /\ g.pc = "post") => SessionUpdateRule(g.newSessionId)]_vars

\* a resumed query has just returned having reported the id it was resumed
\* by: nothing was persisted or announced
C25_Witness ==
  /\ lastDone.kind = "query"
  /\ lastDone.outcome = "return"
  /\ lastDone.newSessionId = "old"
  /\ sessionId = "old"
  /\ sessionFile = "old"
  /\ SessionUpdates(out) = {}
  /\ HandlerResponses(out) = 1

\* C26: in every state, a session_info with a non-null id from source
\* "server" that finds the agent without a session id makes that id the
\* agent's id and persists it, changing nothing else; every other session_info
\* (null id, source "agent", or the agent has an id) changes nothing at all.
C26_SessionInfoAdoptsOnlyIfNone ==
  \A id \in {NONE} \cup ServerSessionIds, source \in {"server", "agent"} :
    LET after == handleSessionInfo(S, id, source) IN
    IF id # NONE /\ source = "server" /\ sessionId = NONE
    THEN after = [S EXCEPT !.sessionId = id, !.sessionFile = id,
                           !.sessionDir = saveSessionId(sessionDir, AgentWorkDir, id)]
    ELSE after = S

\* the server's id was adopted and persisted while the retry of a query that
\* had lost its stale session was running
C26_Witness ==
  /\ nSessionInfos = 1
  /\ sessionId = "srv"
  /\ sessionFile = "srv"
  /\ loadSessionId(sessionDir, AgentWorkDir) = "srv"
  /\ \E f \in LiveExecutes : f.attempt = 2

\* the call whose resolver the pending slot holds
PendingCalls == {c \in parked : \E pa \in pendingApproval : pa.id = c.id}

Denied(c, message) ==
  [c EXCEPT !.behavior = "deny", !.message = message, !.approvedMsg = FALSE]

\* C27: when the abort listener of the call whose approval is pending runs,
\* alone or with the listeners of the other suspended calls, that call is
\* resolved as deny with "Operation aborted", the slot is cleared, the trusted
\* set is unchanged, and an approval message after it changes nothing.
C27_AbortDeniesPending ==
  \A c \in PendingCalls :
    \A after \in {onAbort(S, c), onAbortAll(S, parked)} :
      /\ Denied(c, "Operation aborted") \in after.resolved
      /\ c \notin after.parked
      /\ after.pendingApproval = {}
      /\ after.trustedPaths = trustedPaths
      /\ \A approved \in BOOLEAN, permanent \in BOOLEAN :
           resolveApproval(after, approved, permanent) = after

\* the abort signal has just denied two suspended calls on untrusted paths
C27_Witness ==
  /\ pendingApproval = {}
  /\ parked = {}
  /\ Cardinality({c \in resolved : c.message = "Operation aborted"
                                    /\ c.behavior = "deny" /\ c.untrusted # {}}) = 2
  /\ trustedPaths = {resolve(WorkDir)}

\* the resolved forms of the paths of a tool input
ResolvedPaths(toolName, input) ==
  LET paths == extractPathsFromToolInput(toolName, input) IN
  {resolve(paths[i]) : i \in DOMAIN paths}

\* C28: resolveApproval changes the trusted set only when approved and
\* permanent are both true, and then adds exactly the resolved paths of the
\* stored tool input; after a one-time approval or a denial the trusted set is
\* as before, and the same tool call, if a path of it is untrusted, is
\* suspended on a new approval_required.
C28_TrustOnlyIfPermanent ==
  \A approved \in BOOLEAN, permanent \in BOOLEAN :
    LET after == resolveApproval(S, approved, permanent) IN
    /\ pendingApproval = {} => after.trustedPaths = trustedPaths
    /\ \A pa \in pendingApproval :
         IF approved /\ permanent
         THEN after.trustedPaths = trustedPaths \cup ResolvedPaths(pa.toolName, pa.input)
         ELSE /\ after.trustedPaths = trustedPaths
              /\ LET again == NewCall(nCalls + 1, pa)
                     next == canUseTool([after EXCEPT !.out = <<>>], again) IN
                 Untrusted(S, extractPathsFromToolInput(pa.toolName, pa.input)) # {}
                 => /\ \E c \in next.parked : c.id = again.id
                    /\ next.pendingApproval # {}
                    /\ Len(next.out) = 1
                    /\ next.out[1].type = "approval_required"

\* a one-time approval has just allowed a call whose path is still untrusted,
\* after a permanent approval had extended the trusted set
C28_Witness ==
  /\ \E c \in resolved :
       /\ c.behavior = "allow" /\ c.approvedMsg /\ c.untrusted # {}
       /\ Untrusted(S, extractPathsFromToolInput(c.toolName, c.input)) # {}
  /\ trustedPaths # {resolve(WorkDir)}
  /\ nTrustMsgs = 0

\* C29: no step removes a member of the trusted set, and the resolved working
\* directory it was seeded with is a member, and trusted, in every state.
C29_TrustedSetGrowsOnly ==
  /\ [][trustedPaths \subseteq trustedPaths']_vars
  /\ [](resolve(WorkDir) \in trustedPaths /\ isPathTrusted(S, WorkDir))

\* an add_trusted_path and a permanent approval have both extended the set
C29_Witness ==
  /\ nTrustMsgs = 1
  /\ Cardinality(trustedPaths) >= 3
  /\ resolve(Outside) \in trustedPaths
  /\ resolve(WorkDir) \in trustedPaths

\* the ids of the listed tasks, and of those that are enabled
ListedIds == {tasks[i].id : i \in DOMAIN tasks}
EnabledIds == {tasks[i].id : i \in {j \in DOMAIN tasks : tasks[j].enabled}}

\* C30: after start and any sequence of mutations, the job map holds an id
\* iff a listed task has that id and is enabled, exactly the jobs of the map
\* are running, one per id, and removeTask and toggleTask on an id that is not
\* listed return false and change nothing.
C30_JobsMatchEnabledTasks ==
  /\ cronJobs = EnabledIds
  /\ \A id \in TaskIds : runningJobs[id] = IF id \in cronJobs THEN 1 ELSE 0
  /\ \A id \in TaskIds \ ListedIds :
       /\ removeTask(S, id) = [state |-> S, result |-> FALSE]
       /\ \A enabled \in BOOLEAN :
            toggleTask(S, id, enabled) = [state |-> S, result |-> FALSE]

\* the stored enabled task was disabled, the stored disabled task enabled, an
\* added task is armed, and an id is unknown
C30_Witness ==
  /\ \E i \in DOMAIN tasks : tasks[i].id = 0 /\ ~tasks[i].enabled
  /\ \E i \in DOMAIN tasks : tasks[i].id = -1 /\ tasks[i].enabled
  /\ cronJobs = {-1, 1}
  /\ TaskIds \ ListedIds # {}
  /\ scheduleFile = tasks

\* C31: the activation of handleQuery or runScheduledTask whose execute ends
\* (by returning, by an abort or by any other error, unless the executor
\* retries) completes in that step or goes on to its screenshot; the step
\* that completes an activation clears processing and drains: with an empty
\* queue processing is false, otherwise the head of the queue is shifted off
\* and its execute is live; and processing is never true with no activation
\* live.
C31_SlotReleased ==
  /\ [](processing => frames # {})
  /\ [][/\ \A f \in LiveExecutes :
            \/ \E g \in frames' : g.run = f.run /\ g.pc = "exec" /\ g.attempt >= f.attempt
            \/ \E g \in frames' : g.run = f.run /\ g.pc = "post" /\ f.kind = "query"
            \/ lastDone'.run = f.run
        /\ lastDone'.kind # "none"
           => /\ lastDone'.outcome \in {"return", "abort", "throw"}
              /\ \A g \in frames' : g.run # lastDone'.run
              /\ IF pendingScheduledTasks = <<>>
                 THEN ~processing' /\ frames' = {}
                 ELSE /\ processing'
                      /\ pendingScheduledTasks' = Tail(pendingScheduledTasks)
                      /\ \E g \in LiveExecutes' :
                           g.kind = "task" /\ g.firing = Head(pendingScheduledTasks)]_vars

\* a scheduled task's execute has just thrown an abort: the slot is free
C31_Witness ==
  /\ lastDone.kind = "task"
  /\ lastDone.outcome = "abort"
  /\ lastDone.aborted
  /\ ~processing
  /\ frames = {}
  /\ pendingScheduledTasks = <<>>

\* the frames once every activation has seen the interrupt message
Flagged(fs) == {[g EXCEPT !.intrMsg = TRUE] : g \in fs}

\* the frames once the query a handle names was stopped and the 'interrupted'
\* response was sent
StoppedBy(fs, h) ==
  {[g EXCEPT !.aborted = @ \/ (<<g.run, g.attempt>> = h /\ g.pc = "exec"),
             !.intrResp = @ + 1] : g \in fs}

\* C32: an interrupt handled while processing is true asks the SDK query to
\* stop if there is a query handle, and when that request succeeds the query
\* is stopped and 'interrupted' is sent; when the request fails, or there is
\* no query handle, the abort controller is tripped if there is one and
\* 'interrupted' is sent; nothing is sent and nothing is stopped only when the
\* SDK request did not succeed and there is no abort controller.
C32_InterruptFallsBack ==
  /\ [][/\ (nInterrupts' = nInterrupts + 1 /\ processing)
           => IF currentQuery # NoHandle
              THEN /\ out' = <<>>
                   /\ frames' = Flagged(frames)
                   /\ \E a \in interrupts' \ interrupts : a.target = currentQuery
              ELSE IF abortController # NoHandle
              THEN /\ out' = <<Response("interrupted")>>
                   /\ frames' = StoppedBy(Flagged(frames), abortController)
              ELSE /\ out' = <<>>
                   /\ frames' = Flagged(frames)
                   /\ interrupts' = interrupts
        /\ \A a \in interrupts \ interrupts' :
             \/ /\ out' = <<Response("interrupted")>>
                /\ frames' = StoppedBy(frames, a.target)
             \/ /\ abortController # NoHandle
                /\ out' = <<Response("interrupted")>>
                /\ frames' = StoppedBy(frames, abortController)
             \/ /\ abortController = NoHandle
                /\ out' = <<>>
                /\ frames' = frames]_vars
  /\ [](\A f \in frames :
          LET h == <<f.run, f.attempt>>
              s == [S EXCEPT !.processing = TRUE, !.currentQuery = NoHandle,
                             !.abortController = h, !.out = <<>>]
              after == handleInterrupt(s) IN
          /\ after.out = <<Response("interrupted")>>
          /\ after.frames = StoppedBy(Flagged(frames), h)
          /\ after.interrupts = interrupts)

\* the SDK's interrupt request failed after the stale-session retry had
\* cleared both handles: the live execute was not stopped and nothing was sent
C32_Witness ==
  /\ nInterrupts = 1
  /\ interrupts = {}
  /\ out = <<>>
  /\ lastDone.kind = "none"
  /\ abortController = NoHandle
  /\ currentQuery = NoHandle
  /\ \E f \in LiveExecutes : f.intrMsg /\ ~f.aborted /\ f.intrResp = 0 /\ f.attempt = 2
  /\ nFired = 0

\* C33 (as claimed): the ping timer is armed exactly while the current socket
\* is open; the close of an earlier socket never stops it.
C33_PingIffOpen == pingInterval <=> (ws = "open")

\* what send() does with a frame in the current state
SendRule(msg) ==
  send(S, msg) = [S EXCEPT !.out = Append(out, msg),
                           !.wire = IF ws = "open" THEN Append(wire, msg) ELSE wire]

\* C34: a send while the socket is absent or not OPEN writes nothing and
\* changes no field of the agent, and the handler goes on as if it had been
\* sent; nothing is kept for later: in every step the frames written are the
\* frames that step handed to send() if the socket is open, and none if not.
C34_SendsBestEffort ==
  /\ [][wire' = IF ws' = "open" THEN out' ELSE <<>>]_vars
  /\ [](/\ SendRule(Response("result"))
        /\ SendRule(Msg("approval_required", {1}, "Write"))
        /\ SendRule(Msg("ping", "", 0)))

\* the result of a query accepted over an open socket was handed to send()
\* after that socket had closed, and was not written
C34_Witness ==
  /\ lastDone.kind = "query"
  /\ lastDone.outcome = "return"
  /\ out = <<Response("result")>>
  /\ wire = <<>>
  /\ ws = "closed"
  /\ ~processing

\* C35: in every state between handler steps a non-empty pending-task queue
\* implies processing; a task is appended only while processing is true; the
\* step that releases the slot with a task waiting starts the head task with
\* processing true again; and a query handled while a task waits is rejected
\* as busy.
C35_QueueImpliesBusy ==
  /\ [](pendingScheduledTasks # <<>> => processing)
  /\ [][/\ Len(pendingScheduledTasks') > Len(pendingScheduledTasks)
           => processing /\ processing'
        /\ (lastDone'.kind # "none" /\ pendingScheduledTasks # <<>>)
           => /\ processing'
              /\ \E g \in LiveExecutes' :
                   g.kind = "task" /\ g.firing = Head(pendingScheduledTasks)
        /\ (nQueries' = nQueries + 1 /\ pendingScheduledTasks # <<>>)
           => /\ out' = <<Response("busy")>>
              /\ frames' = frames
              /\ pendingScheduledTasks' = pendingScheduledTasks]_vars

\* a query was just rejected while the first of two queued tasks, started by
\* the release of the slot, is executing and the second still waits
C35_Witness ==
  /\ out = <<Response("busy")>>
  /\ Len(pendingScheduledTasks) = 1
  /\ processing
  /\ \E g \in LiveExecutes : g.kind = "task" /\ g.firing = 1
  /\ pendingScheduledTasks[1] = 2
  /\ nQueries = 2

\* C36 (as claimed): when the awaited SDK interrupt request settles after the
\* execution it was sent for has ended and a later execution has started,
\* handleInterrupt sends no 'interrupted' response and aborts nothing.
C36_InterruptOnlyItsExecution ==
  [][\A a \in interrupts \ interrupts' :
       (\E f \in frames : f.run # a.target[1])
       => /\ out' = <<>>
          /\ \A g \in frames' : \A f \in frames :
               f.run = g.run => (g.aborted = f.aborted /\ g.intrResp = f.intrResp)]_vars

\* C37 (as claimed): an execution that starts for a scheduled task (the first
\* attempt of its execute) starts for a task that is listed and enabled at
\* that moment: once a task was removed or disabled no execution of it
\* starts, a firing that waited in the queue included.
C37_NoStartAfterRemoval ==
  [][\A f \in StartedExecutes :
       (f.kind = "task" /\ f.attempt = 1) => firedTask'[f.firing] \in EnabledIds']_vars

\* C38 (as claimed): whenever no execute is in progress, the executor's session
\* id is the id persisted for the agent's working directory, or both are
\* absent.
C38_MemoryMatchesStore ==
  LiveExecutes = {} => sessionId = loadSessionId(sessionDir, AgentWorkDir)

\* the session state: the executor's id and flag, and the persisted id
SessionState == <<sessionId, sessionStarted, sessionFile, sessionDir>>

\* C39: the step in which an abort propagates out of execute changes no part
\* of the session state and sends no session_update, whatever id the stream
\* had reported; only first attempts end by an abort, and while a first attempt
\* runs no step changes the session state: the state after the abort is the
\* state the execute started in.
C39_AbortKeepsSession ==
  [][/\ lastDone'.outcome = "abort"
        => /\ lastDone'.attempt = 1
           /\ SessionState' = SessionState
           /\ SessionUpdates(out') = {}
     /\ \A f \in LiveExecutes :
          (f.attempt = 1 /\ \E g \in LiveExecutes' : g.run = f.run /\ g.attempt = 1)
          => /\ SessionState' = SessionState
             /\ SessionUpdates(out') = {}]_vars

\* an interrupted first query whose stream had reported a session id has just
\* ended by an abort: the agent has no session and nothing is persisted
C39_Witness ==
  /\ lastDone.kind = "query"
  /\ lastDone.outcome = "abort"
  /\ lastDone.newSessionId = "s1"
  /\ sessionId = NONE
  /\ ~sessionStarted
  /\ loadSessionId(sessionDir, AgentWorkDir) = NONE
  /\ SessionUpdates(out) = {}

\* C40 (as claimed): when the UI answers every approval_required it receives
\* and the connection is re-established after every drop, every permission
\* call suspended in canUseTool is eventually resolved.
C40_ParkedEventuallyResolved ==
  \A id \in 1..MaxCalls :
    (\E c \in parked : c.id = id) ~> ~(\E c \in parked : c.id = id)

\* sessionFile is what loadSessionId reads back for the agent's directory
SessionFileIsStored == sessionFile = loadSessionId(sessionDir, AgentWorkDir)

\* the spelled-out enabling condition is the one TLC computes
SettleEnabledIsEnabled == SettleEnabled <=> ENABLED <<Settle>>_vars

====
